---- MODULE Spec2Model ----
(***************************************************************************)
(* musicctl: discovery of media players on the session bus, selection of   *)
(* the active player and command dispatch.                                 *)
(*                                                                         *)
(* Two entry points of the source tree are modelled:                       *)
(*   run      src/src/main.rs    the command-line program (main -> run)    *)
(*   get_all  src/src/plugin.rs  the plugin module's discovery function    *)
(* main.rs carries its own inline discovery and its own Mpris2 adapter and *)
(* does not call plugin::get_all, so each is modelled as written.          *)
(*                                                                         *)
(* Strings that the code takes apart (bus names, display names, rendered   *)
(* track lines) are sequences of tokens, so that starts_with, slicing and  *)
(* format! are computed and not assumed.                                   *)
(***************************************************************************)
EXTENDS Naturals, Sequences, FiniteSets, TLC

VARIABLES
    entry,       \* which entry point this behaviour executes
    pc,          \* position inside the entry point
    cmd,         \* App.command
    instance,    \* App.instance (Option<String>)
    xs,          \* result of list_names()
    targets,     \* names whose adapter construction was launched
    cstate,      \* per launched construction: pending / ok / err / dropped
    order,       \* indices of the constructions in completion order
    mpris_list,  \* run: result of try_join_all
    fut,         \* run: per handle, state of its fan-out future
    reply,       \* run: metadata reply each handle's remote gave
    list,        \* run: the (handle, info) pairs that survived filter_map
    out,         \* lines written to stdout
    calls,       \* remote control calls issued, in order
    notified,    \* notify() calls issued
    err,         \* error returned by run()
    exit,        \* process outcome
    result       \* get_all: returned Result

vars == <<entry, pc, cmd, instance, xs, targets, cstate, order, mpris_list,
          fut, reply, list, out, calls, notified, err, exit, result>>

\* Longest bus name listing the environment returns.
MaxNames == 3

----------------------------------------------------------------------------
\* Bus names

MPRIS_PREFIX == <<"org", ".", "mpris", ".", "MediaPlayer2", ".">>

SERVICE_NAME == MPRIS_PREFIX \o <<"ShairportSync">>

RADIOTRAY_NG == <<"com", ".", "github", ".", "radiotray_ng">>

BusFoo == MPRIS_PREFIX \o <<"Foo">>

BusBar == MPRIS_PREFIX \o <<"Bar">>

\* the well-known name without a trailing component: not prefix-matched
BusBare == <<"org", ".", "mpris", ".", "MediaPlayer2">>

NamePool == {BusFoo, BusBar, SERVICE_NAME, RADIOTRAY_NG, BusBare}

Range(s) == {s[i] : i \in 1..Len(s)}

RECURSIVE SeqsNoDup(_, _)
SeqsNoDup(S, n) ==
    IF n = 0 THEN {<<>>}
    ELSE LET shorter == SeqsNoDup(S, n - 1)
         IN  shorter \cup
             UNION {{Append(s, x) : x \in S \ Range(s)} :
                    s \in {t \in shorter : Len(t) = n - 1}}

\* The name listings the bus may return: unique names, any order.
Listings == SeqsNoDup(NamePool, MaxNames)

starts_with(x, p) ==
    /\ Len(x) >= Len(p)
    /\ SubSeq(x, 1, Len(p)) = p

contains(s, x) == \E i \in 1..Len(s) : s[i] = x

RECURSIVE filter_prefix(_)
filter_prefix(s) ==
    IF s = <<>> THEN <<>>
    ELSE IF starts_with(Head(s), MPRIS_PREFIX)
         THEN <<Head(s)>> \o filter_prefix(Tail(s))
         ELSE filter_prefix(Tail(s))

----------------------------------------------------------------------------
\* zvariant values and the metadata property

Str(s) == [tag |-> "Str", s |-> s, a |-> <<>>]

Array(a) == [tag |-> "Array", s |-> "", a |-> a]

U32 == [tag |-> "U32", s |-> "", a |-> <<>>]

\* A property read: a transport failure, or the dictionary read.
Failed == [ok |-> FALSE, md |-> <<>>]

Dict(md) == [ok |-> TRUE, md |-> md]

EmptyDict == Dict(<<>>)

TitleOnly == Dict("xesam:title" :> Str("T"))

Full ==
    Dict("xesam:artist" :> Array(<<Array(<<Str("A")>>), Str("B")>>) @@
         "xesam:title" :> Str("T") @@
         "xesam:album" :> Str("L") @@
         "mpris:artUrl" :> Str("U"))

OddShape == Dict("xesam:artist" :> U32)

EmptyArr == Dict("xesam:artist" :> Str("A") @@ "mpris:artUrl" :> Array(<<>>))

\* What a player's metadata read may give.
Replies == {Failed, EmptyDict, TitleOnly, Full, OddShape, EmptyArr}

\* Per handle: whether its metadata was read, and what the read gave.
Unasked == [asked |-> FALSE, r |-> Failed]

Asked(r) == [asked |-> TRUE, r |-> r]

----------------------------------------------------------------------------
\* Option, Result and errors

NoTrack == [artist |-> "", title |-> "", album |-> "", cover |-> ""]

None == [some |-> FALSE, v |-> NoTrack]

Some(v) == [some |-> TRUE, v |-> v]

NoInstance == [some |-> FALSE, v |-> <<>>]

NoError == [kind |-> "Ok", call |-> "", idx |-> 0]

ZbusError(call, i) == [kind |-> "ZbusError", call |-> call, idx |-> i]

NoActive == [kind |-> "NoActive", call |-> "", idx |-> 0]

\* Result<Option<MusicInfo>, McError>, or the unwinding of a panic
InfoErr == [kind |-> "Err", opt |-> None]

InfoOk(o) == [kind |-> "Ok", opt |-> o]

InfoPanic == [kind |-> "Panic", opt |-> None]

----------------------------------------------------------------------------
\* Metadata normalisation and the Mpris2 adapter of main.rs

Panicked == [panic |-> TRUE, s |-> ""]

Returned(s) == [panic |-> FALSE, s |-> s]

RECURSIVE variant_val_to_str(_)
variant_val_to_str(x) ==
    CASE x.tag = "Str" -> Returned(x.s)
      [] x.tag = "Array" ->
            IF Len(x.a) = 0 THEN Panicked        \* a[0] out of bounds
            ELSE variant_val_to_str(x.a[1])
      [] OTHER -> Panicked                       \* todo!()

\* xs.get(key).map(variant_val_to_str).unwrap_or_default()
field(md, key) ==
    IF key \in DOMAIN md THEN variant_val_to_str(md[key]) ELSE Returned("")

mc_info(r) ==
    IF ~r.ok THEN InfoErr
    ELSE IF DOMAIN r.md = {} THEN InfoOk(None)
    ELSE LET artist == field(r.md, "xesam:artist")
             title  == field(r.md, "xesam:title")
             album  == field(r.md, "xesam:album")
             cover  == field(r.md, "mpris:artUrl")
         IN  IF artist.panic \/ title.panic \/ album.panic \/ cover.panic
             THEN InfoPanic
             ELSE InfoOk(Some([artist |-> artist.s, title |-> title.s,
                               album |-> album.s, cover |-> cover.s]))

\* Result<bool, McError>
mc_canplay(r) ==
    IF ~r.ok THEN [ok |-> FALSE, val |-> FALSE]
    ELSE [ok |-> TRUE, val |-> "xesam:artist" \in DOMAIN r.md]

mc_name(x) ==
    SubSeq(x.destination, Len(MPRIS_PREFIX) + 1, Len(x.destination))
        \o <<" (MPRIS)">>

Display(i) ==
    (IF i.album # "" THEN <<"'", i.album, "' ">> ELSE <<>>)
        \o (IF i.title # "" THEN <<i.title, " by ">> ELSE <<>>)
        \o <<i.artist>>

\* unwrap_or_default that defaults the record and not the Option
unwrap_or_default_track(r) == IF r.kind = "Ok" THEN r.opt ELSE Some(NoTrack)

\* Result<Option<_>, _>::unwrap_or_default()
unwrap_or_default(r) == IF r.kind = "Ok" THEN r.opt ELSE None

\* The same normaliser and adapter as the plugin module carries them
\* (plugin.rs, plugin/mpris.rs).
RECURSIVE variant_val_to_string(_)
variant_val_to_string(x) ==
    CASE x.tag = "Str" -> Returned(x.s)
      [] x.tag = "Array" ->
            IF Len(x.a) = 0 THEN Panicked
            ELSE variant_val_to_string(x.a[1])
      [] OTHER -> Panicked

plugin_field(md, key) ==
    IF key \in DOMAIN md THEN variant_val_to_string(md[key]) ELSE Returned("")

Mpris2Proxy_mc_info(r) ==
    IF ~r.ok THEN InfoErr
    ELSE IF DOMAIN r.md = {} THEN InfoOk(None)
    ELSE LET artist == plugin_field(r.md, "xesam:artist")
             title  == plugin_field(r.md, "xesam:title")
             album  == plugin_field(r.md, "xesam:album")
             cover  == plugin_field(r.md, "mpris:artUrl")
         IN  IF artist.panic \/ title.panic \/ album.panic \/ cover.panic
             THEN InfoPanic
             ELSE InfoOk(Some([artist |-> artist.s, title |-> title.s,
                               album |-> album.s, cover |-> cover.s]))

Mpris2Proxy(x) == [variant |-> "Mpris2", destination |-> x]

ShairportSyncProxy(x) == [variant |-> "ShairportSync", destination |-> x]

RadioTrayNGProxy == [variant |-> "RadioTrayNG", destination |-> RADIOTRAY_NG]

----------------------------------------------------------------------------
\* Concurrent joins

Pending(n) == [i \in 1..n |-> "pending"]

\* try_join_all is resolved at the first failure, or when all have succeeded
resolved(cs) ==
    \/ \E i \in 1..Len(cs) : cs[i] = "err"
    \/ \A i \in 1..Len(cs) : cs[i] = "ok"

\* try_join_all as a join that leaves failures out and keeps the rest
try_join_all_partial(hs, cs, ord) ==
    [ok |-> TRUE,
     list |-> SelectSeq(hs, LAMBDA h :
                  \E i \in 1..Len(cs) : hs[i] = h /\ cs[i] = "ok"),
     e |-> NoError]

\* try_join_all as a join that yields the outputs as they complete
try_join_all_unordered(hs, cs, ord) ==
    IF \E i \in 1..Len(cs) : cs[i] = "err"
    THEN [ok |-> FALSE, list |-> <<>>,
          e |-> ZbusError("build", CHOOSE i \in 1..Len(cs) : cs[i] = "err")]
    ELSE [ok |-> TRUE, list |-> [k \in 1..Len(ord) |-> hs[ord[k]]],
          e |-> NoError]

\* The value try_join_all resolves to: the first failure, or every output
\* in the order the futures were given.  hs[i] is the output of future i.
try_join_all(hs, cs, ord) ==
    IF \E i \in 1..Len(cs) : cs[i] = "err"
    THEN [ok |-> FALSE, list |-> <<>>,
          e |-> ZbusError("build", CHOOSE i \in 1..Len(cs) : cs[i] = "err")]
    ELSE [ok |-> TRUE, list |-> hs, e |-> NoError]

\* A construction completes: on failure the futures still pending are dropped.
complete(cs, i, ok) ==
    IF ok THEN [cs EXCEPT ![i] = "ok"]
    ELSE [j \in 1..Len(cs) |->
             IF j = i THEN "err"
             ELSE IF cs[j] = "pending" THEN "dropped" ELSE cs[j]]

\* filter_map(|(x, info)| info.map(|i| (x, i)))
RECURSIVE filter_map(_, _)
filter_map(fs, i) ==
    IF i > Len(fs) THEN <<>>
    ELSE IF fs[i].opt.some
         THEN <<[x |-> i, info |-> fs[i].opt.v]>> \o filter_map(fs, i + 1)
         ELSE filter_map(fs, i + 1)

FutPending == [st |-> "pending", opt |-> None]

FutDone(o) == [st |-> "done", opt |-> o]

----------------------------------------------------------------------------
\* Inputs

Commands == {"List", "Play", "Stop", "Next", "Prev", "Info", "Vinfo", "Mute"}

\* --instance: absent, the display name main.rs gives to Bar, or a name that
\* no adapter of main.rs reports
Instances ==
    {NoInstance,
     [some |-> TRUE, v |-> mc_name(Mpris2Proxy(BusBar))],
     [some |-> TRUE, v |-> <<"ShairportSync">>]}

Init ==
    /\ entry \in {"run", "get_all"}
    /\ pc = "start"
    /\ cmd \in (IF entry = "run" THEN Commands ELSE {"Info"})
    /\ instance \in (IF entry = "run" THEN Instances ELSE {NoInstance})
    /\ xs = <<>>
    /\ targets = <<>>
    /\ cstate = <<>>
    /\ order = <<>>
    /\ mpris_list = <<>>
    /\ fut = <<>>
    /\ reply = <<>>
    /\ list = <<>>
    /\ out = <<>>
    /\ calls = <<>>
    /\ notified = <<>>
    /\ err = NoError
    /\ exit = "running"
    /\ result = [st |-> "none", list |-> <<>>, e |-> NoError]

----------------------------------------------------------------------------
\* run(), src/src/main.rs

\* Connection::session().await?
RunSession ==
    /\ entry = "run" /\ pc = "start"
    /\ \E ok \in BOOLEAN :
          IF ok THEN pc' = "list_names" /\ err' = err
          ELSE pc' = "main" /\ err' = ZbusError("session", 0)
    /\ UNCHANGED <<entry, cmd, instance, xs, targets, cstate, order,
                   mpris_list, fut, reply, list, out, calls, notified,
                   exit, result>>

\* DBusProxy::new(&session).await? / proxy.list_names().await? failing
RunListNamesErr ==
    /\ entry = "run" /\ pc = "list_names"
    /\ pc' = "main"
    /\ err' = ZbusError("list_names", 0)
    /\ UNCHANGED <<entry, cmd, instance, xs, targets, cstate, order,
                   mpris_list, fut, reply, list, out, calls, notified,
                   exit, result>>

\* list_names() replies; the listing is consumed by into_iter().filter()
\* and one construction per prefix-matched name is launched.  With nothing
\* to construct both joins resolve at once and the list is empty.
RunListNames ==
    /\ entry = "run" /\ pc = "list_names"
    /\ \E l \in Listings :
          LET ts == filter_prefix(l)
          IN  /\ targets' = ts
              /\ cstate' = Pending(Len(ts))
              /\ IF ts = <<>>
                 THEN pc' = "main" /\ err' = NoActive
                 ELSE pc' = "build" /\ err' = err
    /\ UNCHANGED <<entry, cmd, instance, xs, order, mpris_list, fut, reply,
                   list, out, calls, notified, exit, result>>

\* One Mpris2Proxy::builder(..).destination(x)?.build().await completes.
RunBuild(i) ==
    /\ entry = "run" /\ pc = "build"
    /\ i \in 1..Len(cstate) /\ cstate[i] = "pending"
    /\ \E ok \in BOOLEAN :
          LET cs == complete(cstate, i, ok)
              ord == Append(order, i)
              hs == [j \in 1..Len(targets) |-> Mpris2Proxy(targets[j])]
              joined == try_join_all(hs, cs, ord)
          IN  /\ cstate' = cs
              /\ order' = ord
              /\ IF ~resolved(cs)
                 THEN UNCHANGED <<pc, err, mpris_list, fut, reply>>
                 ELSE IF joined.ok
                 THEN /\ mpris_list' = joined.list
                      /\ fut' = [j \in 1..Len(joined.list) |-> FutPending]
                      /\ reply' = [j \in 1..Len(joined.list) |-> Unasked]
                      /\ pc' = "fanout"
                      /\ err' = err
                 ELSE /\ err' = joined.e
                      /\ pc' = "main"
                      /\ UNCHANGED <<mpris_list, fut, reply>>
    /\ UNCHANGED <<entry, cmd, instance, xs, targets, list, out, calls,
                   notified, exit, result>>

\* The name test of the --instance branch of the fan-out
matches(x) == ~instance.some \/ mc_name(x) = instance.v

\* One future of the join_all over mpris_list completes.  The remote is
\* asked for its metadata only when the name test passes; a panic inside
\* mc_info unwinds through join_all, run and main.  When the last future is
\* done the pairs are filtered and an empty list is NoActive.
RunFanOut(i) ==
    /\ entry = "run" /\ pc = "fanout"
    /\ i \in 1..Len(fut) /\ fut[i].st = "pending"
    /\ \E r \in (IF matches(mpris_list[i]) THEN Replies ELSE {Failed}) :
          LET m == matches(mpris_list[i])
              res == IF m THEN mc_info(r) ELSE InfoOk(None)
              fs == [fut EXCEPT ![i] = FutDone(unwrap_or_default(res))]
              l == filter_map(fs, 1)
          IN  /\ reply' = IF m THEN [reply EXCEPT ![i] = Asked(r)] ELSE reply
              /\ IF res.kind = "Panic"
                 THEN /\ pc' = "done"
                      /\ exit' = "panic"
                      /\ UNCHANGED <<fut, list, err>>
                 ELSE /\ fut' = fs
                      /\ exit' = exit
                      /\ IF \E j \in 1..Len(fs) : fs[j].st = "pending"
                         THEN UNCHANGED <<pc, list, err>>
                         ELSE /\ list' = l
                              /\ IF l = <<>>
                                 THEN pc' = "main" /\ err' = NoActive
                                 ELSE pc' = "dispatch" /\ err' = err
    /\ UNCHANGED <<entry, cmd, instance, xs, targets, cstate, order,
                   mpris_list, out, calls, notified, result>>

\* the last pair where the first is meant
SelectedLast(l) == l[Len(l)]

\* list[0]
Selected(l) == l[1]

\* println!("{}: {}", name, info)
Line(m) == mc_name(mpris_list[m.x]) \o <<": ">> \o Display(m.info)

DispatchList ==
    /\ entry = "run" /\ pc = "dispatch" /\ cmd = "List"
    /\ out' = [k \in 1..Len(list) |-> Line(list[k])]
    /\ pc' = "main"
    /\ UNCHANGED <<entry, cmd, instance, xs, targets, cstate, order,
                   mpris_list, fut, reply, list, calls, notified, err, exit,
                   result>>

DispatchInfo ==
    /\ entry = "run" /\ pc = "dispatch" /\ cmd = "Info"
    /\ out' = <<Line(Selected(list))>>
    /\ pc' = "main"
    /\ UNCHANGED <<entry, cmd, instance, xs, targets, cstate, order,
                   mpris_list, fut, reply, list, calls, notified, err, exit,
                   result>>

\* One control call on the selected handle; its failure is run's error.
Control(c, op, method) ==
    /\ entry = "run" /\ pc = "dispatch" /\ cmd = c
    /\ calls' = Append(calls,
                       [dest |-> mpris_list[Selected(list).x].destination,
                        idx |-> Selected(list).x,
                        op |-> op, method |-> method])
    /\ \E ok \in BOOLEAN :
          err' = IF ok THEN err ELSE ZbusError(method, Selected(list).x)
    /\ pc' = "main"
    /\ UNCHANGED <<entry, cmd, instance, xs, targets, cstate, order,
                   mpris_list, fut, reply, list, out, notified, exit,
                   result>>

DispatchPlay == Control("Play", "mc_play", "play_pause")

DispatchStop == Control("Stop", "mc_stop", "stop")

DispatchNext == Control("Next", "mc_next", "next")

DispatchPrev == Control("Prev", "mc_prev", "previous")

\* NotificationsProxy::new(..).await?, then notify(..).await?
DispatchVinfo ==
    /\ entry = "run" /\ pc = "dispatch" /\ cmd = "Vinfo"
    /\ \E o \in {"proxy_err", "notify_err", "ok"} :
          LET m == Selected(list)
              n == [icon |-> m.info.cover, summary |-> Display(m.info),
                    body |-> mc_name(mpris_list[m.x])]
          IN  /\ notified' = IF o = "proxy_err" THEN notified
                             ELSE Append(notified, n)
              /\ err' = CASE o = "proxy_err" -> ZbusError("notifications", 0)
                          [] o = "notify_err" -> ZbusError("notify", 0)
                          [] OTHER -> err
              /\ out' = IF o = "ok" THEN <<<<"Created Notification: ", "id">>>>
                        ELSE out
    /\ pc' = "main"
    /\ UNCHANGED <<entry, cmd, instance, xs, targets, cstate, order,
                   mpris_list, fut, reply, list, calls, exit, result>>

\* Command::Mute => todo!()
DispatchMute ==
    /\ entry = "run" /\ pc = "dispatch" /\ cmd = "Mute"
    /\ pc' = "done"
    /\ exit' = "panic"
    /\ UNCHANGED <<entry, cmd, instance, xs, targets, cstate, order,
                   mpris_list, fut, reply, list, out, calls, notified, err,
                   result>>

\* main(): Ok(()) => ExitCode::SUCCESS, Err(e) => eprintln + ExitCode::FAILURE
Main ==
    /\ entry = "run" /\ pc = "main"
    /\ exit' = IF err = NoError THEN "SUCCESS" ELSE "FAILURE"
    /\ pc' = "done"
    /\ UNCHANGED <<entry, cmd, instance, xs, targets, cstate, order,
                   mpris_list, fut, reply, list, out, calls, notified, err,
                   result>>

----------------------------------------------------------------------------
\* get_all(), src/src/plugin.rs

Ok(l) == [st |-> "Ok", list |-> l, e |-> NoError]

Err(e) == [st |-> "Err", list |-> <<>>, e |-> e]

\* construction without the identity override
AdapterNoOverride(x) == Mpris2Proxy(x)

\* match x.as_str() { SERVICE_NAME => ShairportSyncProxy, _ => Mpris2Proxy }
Adapter(x) ==
    IF x = SERVICE_NAME THEN ShairportSyncProxy(x) ELSE Mpris2Proxy(x)

\* DBusProxy::new(conn).await? / proxy.list_names().await? failing
GetAllListNamesErr ==
    /\ entry = "get_all" /\ pc = "start"
    /\ result' = Err(ZbusError("list_names", 0))
    /\ pc' = "done"
    /\ UNCHANGED <<entry, cmd, instance, xs, targets, cstate, order,
                   mpris_list, fut, reply, list, out, calls, notified, err,
                   exit>>

\* What follows the try_join_all: the radio-stream adapter is built only
\* when its name was listed, otherwise the list is returned as it is.
AfterJoin(names, ts, cs, l) ==
    /\ mpris_list' = l
    /\ IF contains(names, RADIOTRAY_NG)
       THEN /\ pc' = "radio"
            /\ targets' = Append(ts, RADIOTRAY_NG)
            /\ cstate' = Append(cs, "pending")
            /\ result' = result
       ELSE /\ pc' = "done"
            /\ targets' = ts
            /\ cstate' = cs
            /\ result' = Ok(l)

\* list_names() replies and one construction per prefix-matched name is
\* launched; xs is kept for the radio-stream test.
GetAllListNames ==
    /\ entry = "get_all" /\ pc = "start"
    /\ \E l \in Listings :
          LET ts == filter_prefix(l)
          IN  /\ xs' = l
              /\ IF ts = <<>>
                 THEN AfterJoin(l, ts, <<>>, <<>>)
                 ELSE /\ pc' = "build"
                      /\ targets' = ts
                      /\ cstate' = Pending(Len(ts))
                      /\ UNCHANGED <<mpris_list, result>>
    /\ UNCHANGED <<entry, cmd, instance, order, fut, reply, list, out,
                   calls, notified, err, exit>>

\* One adapter construction of the try_join_all completes.
GetAllBuild(i) ==
    /\ entry = "get_all" /\ pc = "build"
    /\ i \in 1..Len(cstate) /\ cstate[i] = "pending"
    /\ \E ok \in BOOLEAN :
          LET cs == complete(cstate, i, ok)
              ord == Append(order, i)
              hs == [j \in 1..Len(targets) |-> Adapter(targets[j])]
              joined == try_join_all(hs, cs, ord)
          IN  /\ order' = ord
              /\ IF ~resolved(cs)
                 THEN cstate' = cs /\ UNCHANGED <<pc, targets, mpris_list, result>>
                 ELSE IF joined.ok
                 THEN AfterJoin(xs, targets, cs, joined.list)
                 ELSE /\ result' = Err(joined.e)
                      /\ pc' = "done"
                      /\ cstate' = cs
                      /\ UNCHANGED <<targets, mpris_list>>
    /\ UNCHANGED <<entry, cmd, instance, xs, fut, reply, list, out,
                   calls, notified, err, exit>>

\* RadioTrayNGProxy::builder(conn).build().await?; list.push(..); Ok(list)
GetAllRadio ==
    /\ entry = "get_all" /\ pc = "radio"
    /\ \E ok \in BOOLEAN :
          /\ cstate' = complete(cstate, Len(cstate), ok)
          /\ IF ok
             THEN /\ mpris_list' = Append(mpris_list, RadioTrayNGProxy)
                  /\ result' = Ok(Append(mpris_list, RadioTrayNGProxy))
             ELSE /\ mpris_list' = mpris_list
                  /\ result' = Err(ZbusError("build", Len(cstate)))
    /\ order' = Append(order, Len(cstate))
    /\ pc' = "done"
    /\ UNCHANGED <<entry, cmd, instance, xs, targets, fut, reply, list, out,
                   calls, notified, err, exit>>

----------------------------------------------------------------------------

Next ==
    \/ RunSession
    \/ RunListNamesErr
    \/ RunListNames
    \/ \E i \in 1..MaxNames : RunBuild(i)
    \/ \E i \in 1..MaxNames : RunFanOut(i)
    \/ DispatchList
    \/ DispatchInfo
    \/ DispatchPlay
    \/ DispatchStop
    \/ DispatchNext
    \/ DispatchPrev
    \/ DispatchVinfo
    \/ DispatchMute
    \/ Main
    \/ GetAllListNamesErr
    \/ GetAllListNames
    \/ \E i \in 1..MaxNames : GetAllBuild(i)
    \/ GetAllRadio

Spec == Init /\ [][Next]_vars

----------------------------------------------------------------------------
\* Vocabulary of the properties

\* Every future of the fan-out has completed (the list has been filtered).
FanOutDone ==
    /\ entry = "run"
    /\ Len(fut) > 0
    /\ \A i \in 1..Len(fut) : fut[i].st = "done"

\* can_play_now() of handle i succeeds and returns true, on the metadata
\* its remote gave.
Eligible(i) ==
    /\ reply[i].asked
    /\ mc_canplay(reply[i].r).ok
    /\ mc_canplay(reply[i].r).val

\* Handle i is eligible and, if a criterion was given, carries its name.
Candidate(i) == matches(mpris_list[i]) /\ Eligible(i)

\* info() of handle i returned a track.
HasTrack(i) ==
    /\ reply[i].asked
    /\ mc_info(reply[i].r).kind = "Ok"
    /\ mc_info(reply[i].r).opt.some

\* Discovery succeeded in this run.
Discovered ==
    /\ entry = "run"
    /\ pc \in {"fanout", "dispatch", "main", "done"}
    /\ ~(err.kind = "ZbusError" /\ err.call \in {"session", "list_names", "build"})

ControlCommands == {"Play", "Stop", "Next", "Prev"}

OpOf(c) ==
    CASE c = "Play" -> "mc_play"
      [] c = "Stop" -> "mc_stop"
      [] c = "Next" -> "mc_next"
      [] c = "Prev" -> "mc_prev"
      [] OTHER -> "none"

\* The first handle, in list order, whose future yielded a track.
FirstTracked ==
    CHOOSE i \in 1..Len(fut) :
        fut[i].opt.some /\ \A j \in 1..(i - 1) : ~fut[j].opt.some

----------------------------------------------------------------------------
\* C1: the handle handed to the dispatcher is the first handle, in discovery
\* order, whose can_play_now() succeeded with true and whose name equals the
\* criterion when one is given; a handle that is not eligible is never
\* selected.
C1_FirstEligibleSelected ==
    (entry = "run" /\ list # <<>>) =>
        LET s == Selected(list).x
        IN  /\ Candidate(s)
            /\ \A j \in 1..(s - 1) : ~Candidate(j)

\* C2: selection fails with NoActive exactly when no handle is eligible and
\* name-matching: a NoActive run has no such handle, and a run that reaches
\* dispatch has one.
C2_NoActiveIffNoCandidate ==
    /\ (entry = "run" /\ err = NoActive) =>
           ~\E i \in 1..Len(mpris_list) : Candidate(i)
    /\ (entry = "run" /\ pc = "dispatch") =>
           \E i \in 1..Len(mpris_list) : Candidate(i)

AdapterUniverse ==
    {[variant |-> v, destination |-> d] :
        v \in {"Mpris2", "ShairportSync", "RadioTrayNG"}, d \in NamePool}

Count(l, h) == Cardinality({i \in 1..Len(l) : l[i] = h})

Expected(h) ==
    CASE h.variant = "Mpris2" ->
            IF /\ contains(xs, h.destination)
               /\ starts_with(h.destination, MPRIS_PREFIX)
               /\ h.destination # SERVICE_NAME
            THEN 1 ELSE 0
      [] h.variant = "ShairportSync" ->
            IF h.destination = SERVICE_NAME /\ contains(xs, SERVICE_NAME)
            THEN 1 ELSE 0
      [] OTHER ->
            IF h.destination = RADIOTRAY_NG /\ contains(xs, RADIOTRAY_NG)
            THEN 1 ELSE 0

C4_AllOrNothing ==
    \A i \in 1..Len(cstate) :
        cstate[i] = "err" =>
            IF entry = "get_all"
            THEN result = Err(ZbusError("build", i))
            ELSE /\ err = ZbusError("build", i)
                 /\ mpris_list = <<>>
                 /\ list = <<>>
                 /\ out = <<>>
                 /\ calls = <<>>
                 /\ notified = <<>>
                 /\ exit \in {"running", "FAILURE"}

C4_Witness ==
    /\ entry = "get_all"
    /\ pc = "done"
    /\ contains(xs, RADIOTRAY_NG)
    /\ \E i, j \in 1..Len(cstate) : cstate[i] = "err" /\ cstate[j] = "ok"
    /\ result.st = "Err"

\* C5: in the fan-out a failed metadata read makes its handle a handle with
\* no track: it is left out of the list, every handle that returned a track
\* is in the list, the run is not NoActive when some handle returned a
\* track, and the only transport errors run can end with are those of the
\* dispatched call.
C5_FailureAbsorbed ==
    FanOutDone =>
        /\ \A i \in 1..Len(fut) :
              (reply[i].asked /\ ~reply[i].r.ok) =>
                  /\ fut[i].opt = None
                  /\ \A k \in 1..Len(list) : list[k].x # i
        /\ \A j \in 1..Len(fut) :
              HasTrack(j) => \E k \in 1..Len(list) : list[k].x = j
        /\ (\E j \in 1..Len(fut) : HasTrack(j)) => err # NoActive
        /\ err.kind = "ZbusError" =>
              err.call \in {"play_pause", "stop", "next", "previous",
                            "notifications", "notify"}

C5_Witness ==
    /\ entry = "run" /\ pc = "done" /\ exit = "SUCCESS" /\ cmd = "List"
    /\ \E i, j \in 1..Len(reply) :
          /\ i < j
          /\ reply[i] = Asked(Failed)
          /\ reply[j] = Asked(Full)
    /\ Len(out) = 1

RECURSIVE TrackLines(_)
TrackLines(i) ==
    IF i > Len(mpris_list) THEN <<>>
    ELSE IF HasTrack(i)
         THEN <<mc_name(mpris_list[i]) \o <<": ">>
                    \o Display(mc_info(reply[i].r).opt.v)>> \o TrackLines(i + 1)
         ELSE TrackLines(i + 1)

\* C6: a List run queries info() on every handle of the list and prints
\* one line, in list order, for each handle that returned a track; handles
\* without a track next to it are left out and are no error.
C6_ListPrintsEveryTrack ==
    (Discovered /\ cmd = "List" /\ pc = "done" /\ exit # "panic") =>
        /\ \A i \in 1..Len(mpris_list) : reply[i].asked
        /\ out = TrackLines(1)
        /\ (\E j \in 1..Len(mpris_list) : HasTrack(j)) => err = NoError

\* C7: at most one control call is ever issued, only by Play/Stop/Next/Prev,
\* with the verb of the command and to the selected handle (the first handle
\* with a track); none when selection fails; exactly one once such a command
\* has been dispatched; Info prints the selected handle's line only.
C7_ControlOnSelectedOnly ==
    entry = "run" =>
        /\ Len(calls) <= 1
        /\ \A k \in 1..Len(calls) :
              /\ cmd \in ControlCommands
              /\ calls[k].op = OpOf(cmd)
              /\ FanOutDone
              /\ calls[k].idx = FirstTracked
              /\ calls[k].dest = targets[FirstTracked]
        /\ err = NoActive => calls = <<>>
        /\ (pc \in {"main", "done"} /\ cmd \in ControlCommands /\ list # <<>>)
              => Len(calls) = 1
        /\ (pc \in {"main", "done"} /\ cmd = "Info" /\ list # <<>>)
              => out = <<mc_name(mpris_list[FirstTracked]) \o <<": ">>
                            \o Display(fut[FirstTracked].opt.v)>>

C7_Witness ==
    /\ entry = "run" /\ pc = "done" /\ cmd = "Play"
    /\ Len(calls) = 1
    /\ calls[1].idx = 2
    /\ \E j \in 1..Len(fut) : j > 2 /\ fut[j].opt.some

\* C8: a finished run has exit code 0 or 1, 0 exactly when run returned Ok.
C8_ExitZeroOrOne ==
    (entry = "run" /\ pc = "done") =>
        /\ exit \in {"SUCCESS", "FAILURE"}
        /\ exit = "SUCCESS" <=> err = NoError

Pos(x) == CHOOSE k \in 1..Len(xs) : xs[k] = x

\* C9: the list a successful get_all returns is ordered by the name listing
\* whatever the completion order of the constructions: prefix-matched
\* adapters in listing order, the RadioTrayNG adapter last.
C9_OrderDeterministic ==
    (entry = "get_all" /\ result.st = "Ok") =>
        \A i, j \in 1..Len(result.list) :
            i < j =>
                /\ result.list[i].variant # "RadioTrayNG"
                /\ result.list[j].variant # "RadioTrayNG" =>
                      Pos(result.list[i].destination)
                          < Pos(result.list[j].destination)

C9_Witness ==
    /\ entry = "get_all"
    /\ result.st = "Ok"
    /\ Len(result.list) = 3
    /\ xs[1] = RADIOTRAY_NG
    /\ order[1] > order[2]

RECURSIVE Scalar(_)
Scalar(v) ==
    \/ v.tag = "Str"
    \/ v.tag = "Array" /\ Len(v.a) > 0 /\ Scalar(v.a[1])

WellShaped(r) == \A k \in DOMAIN r.md : Scalar(r.md[k])

\* C10: normalisation never aborts: info() on any metadata the remote gives
\* returns no-track, a track or a failure, a value that is neither a string
\* nor a list with a first element gives a failure, and the process is not
\* aborted by it.
C10_NormalisationTotal ==
    entry = "run" =>
        /\ \A i \in 1..Len(reply) :
              reply[i].asked =>
                  /\ Mpris2Proxy_mc_info(reply[i].r).kind \in {"Ok", "Err"}
                  /\ ~WellShaped(reply[i].r) =>
                         Mpris2Proxy_mc_info(reply[i].r).kind = "Err"
        /\ exit = "panic" => cmd = "Mute"

====
